---- MODULE Spec2Model ----
(***************************************************************************)
(* Model of ContactSensorOperator (ContactSensorClass.py): the sensor      *)
(* import / removal workflow, the per-physics-step slider update, and the  *)
(* USD stage, status field and contact-sensor interface it talks to.       *)
(*                                                                         *)
(* A prim path is a sequence of prim names; a prim name is a sequence of   *)
(* tokens, so that "tact_sensor" in prim.GetName() is a real containment   *)
(* test and parent_path + "/tact_sensor_" + name is a real concatenation.  *)
(***************************************************************************)
EXTENDS Integers, Sequences, FiniteSets, TLC

VARIABLES parent_paths, sliders, activated, sensors, status, stage,
          lastUI, shown, polled, data, edited

vars == <<parent_paths, sliders, activated, sensors, status, stage,
          lastUI, shown, polled, data, edited>>

(* parent_paths, sliders, activated, sensors: the fields of the operator   *)
(* status: the text of the status report field                             *)
(* stage: the prim paths of the USD stage                                  *)
(* lastUI: the button whose handler ran last                               *)
(* shown: the texts the last handler put in the status field, in order     *)
(* polled: the get_sensor_reading calls of the last sensor_update that     *)
(*         made any, with the readings they returned; cleared by 'Update'  *)
(* data: the rows of the last file import_csv accepted                     *)
(* edited: the user edited the stage after the last button handler ran     *)

----------------------------------------------------------------------------
(* Bounds of the model *)

MaxRows == 2

(* Program constants *)

meters_per_unit == 1

Marker == "tact_sensor"

----------------------------------------------------------------------------
(* The inputs: sensor names, attachment paths, CSV rows and files *)

Names == {"A", "B"}

Leg1 == << <<"Robot">>, <<"Leg1">> >>

Leg2 == << <<"Robot">>, <<"Leg2">> >>

Root == << <<"Robot">> >>

ParentPaths == {Leg1, Leg2}

(* a child that is not a sensor, and one that carries the marker without *)
(* having been created by this extension                                 *)
Visuals == <<"visuals">>

OldSensor == <<"old", "tact_sensor">>

(* a link of the robot comes with its visuals child *)
Link(p) == {p, p \o <<Visuals>>}

(* parents under which IsaacSensorCreateContactSensor may fail *)
RejectingPaths == {Leg2}

(* values a valid reading can carry *)
ReadingValues == {3}

Row(name, parent_path, ncols, numeric) ==
    [name |-> name, offset |-> <<0, 0, 1>>, radius |-> 5,
     parent_path |-> parent_path, ncols |-> ncols, numeric |-> numeric]

(* the well-formed rows: two sensors on one link, one name on two links *)
GoodRows ==
    { Row("A", Leg1, 6, TRUE), Row("B", Leg1, 6, TRUE), Row("A", Leg2, 6, TRUE) }

GoodFiles ==
    [readable : {TRUE},
     rows : UNION { [1..n -> GoodRows] : n \in 0..MaxRows }]

(* an unreadable file, a row with 5 fields, a non-numeric offset, rows of *)
(* unequal length, and rows that all carry a 7th field                    *)
OddFiles ==
    { [readable |-> FALSE, rows |-> <<>>],
      [readable |-> TRUE,
       rows |-> <<Row("A", Leg1, 5, TRUE), Row("B", Leg1, 5, TRUE)>>],
      [readable |-> TRUE,
       rows |-> <<Row("A", Leg1, 6, TRUE), Row("B", Leg1, 6, FALSE)>>],
      [readable |-> TRUE,
       rows |-> <<Row("A", Leg1, 6, TRUE), Row("B", Leg1, 5, TRUE)>>],
      [readable |-> TRUE,
       rows |-> <<Row("A", Leg1, 7, TRUE), Row("B", Leg1, 7, TRUE)>>] }

Files == GoodFiles \cup OddFiles

----------------------------------------------------------------------------
(* The USD stage *)

IsPrefix(p, q) == Len(p) <= Len(q) /\ SubSeq(q, 1, Len(p)) = p

is_prim_path_valid(st, p) == p \in st

get_prim_children(st, p) ==
    {q \in st : Len(q) = Len(p) + 1 /\ IsPrefix(p, q)}

GetName(q) == q[Len(q)]

ContainsMarker(n) == \E i \in DOMAIN n : n[i] = Marker

DeletePrims(st, q) == {r \in st : ~IsPrefix(q, r)}

SensorPrimName(name) == <<Marker, name>>

----------------------------------------------------------------------------
(* class Sensor *)

Sensor(name, position, radius, parent_path) ==
    [name |-> name, position |-> position, radius |-> radius,
     parent_path |-> parent_path,
     path |-> parent_path \o <<SensorPrimName(name)>>]

(* a dict that keeps the value it already has for a key *)
dict_setdefault(d, key, val) ==
    IF \E i \in DOMAIN d : d[i].name = key THEN d ELSE Append(d, val)

(* self.sensors is a dict: assignment to an existing key keeps its place *)
dict_set(d, key, val) ==
    IF \E i \in DOMAIN d : d[i].name = key
    THEN [i \in DOMAIN d |-> IF d[i].name = key THEN val ELSE d[i]]
    ELSE Append(d, val)

Line(msg, arg, n) == [msg |-> msg, arg |-> arg, n |-> n]

NoPath == <<>>

----------------------------------------------------------------------------
(* remove_sensors: the loop over self.parent_paths; the except branch      *)
(* reports and returns from the function                                   *)

DeleteMarked(st, p) ==
    {r \in st : ~\E q \in get_prim_children(st, p) :
                    ContainsMarker(GetName(q)) /\ IsPrefix(q, r)}

RECURSIVE remove_from(_, _, _)
remove_from(st, pp, i) ==
    IF i > Len(pp) THEN [stage |-> st, unexpected |-> FALSE]
    ELSE IF ~is_prim_path_valid(st, pp[i])
         THEN [stage |-> st, unexpected |-> TRUE]
         ELSE remove_from(DeleteMarked(st, pp[i]), pp, i + 1)

remove_sensors(st, pp) == remove_from(st, pp, 1)

UnexpectedText == <<Line("Unexpected path!", NoPath, 0)>>

(* the texts remove_sensors puts in the status field *)
RemoveShown(r) == IF r.unexpected THEN <<UnexpectedText>> ELSE <<>>

----------------------------------------------------------------------------
(* import_csv *)

NoCsv == [ok |-> FALSE, names |-> <<>>, positions |-> <<>>, radii |-> <<>>,
          parent_paths |-> <<>>, data |-> <<>>]

(* the parser with the array forced to two dimensions: one row is enough *)
import_csv_atleast_2d(file) ==
    LET rows == file.rows IN
    IF ~file.readable THEN NoCsv
    ELSE IF \E i, j \in DOMAIN rows : rows[i].ncols # rows[j].ncols THEN NoCsv
    ELSE IF Len(rows) < 1 THEN NoCsv
    ELSE IF \E i \in DOMAIN rows : rows[i].ncols < 6 \/ ~rows[i].numeric
         THEN NoCsv
    ELSE [ok |-> TRUE,
          names |-> [i \in DOMAIN rows |-> rows[i].name],
          positions |-> [i \in DOMAIN rows |-> rows[i].offset],
          radii |-> [i \in DOMAIN rows |-> rows[i].radius],
          parent_paths |-> [i \in DOMAIN rows |-> rows[i].parent_path],
          data |-> rows]

(* np.genfromtxt raises on an unreadable file and on rows of unequal      *)
(* length, and gives a 1-D array for fewer than 2 rows, where data[:, 0]  *)
(* raises; data[i, 5] raises below 6 columns, float() on a non-number     *)
import_csv(file) ==
    LET rows == file.rows IN
    IF ~file.readable THEN NoCsv
    ELSE IF \E i, j \in DOMAIN rows : rows[i].ncols # rows[j].ncols THEN NoCsv
    ELSE IF Len(rows) < 2 THEN NoCsv
    ELSE IF \E i \in DOMAIN rows : rows[i].ncols < 6 \/ ~rows[i].numeric
         THEN NoCsv
    ELSE [ok |-> TRUE,
          names |-> [i \in DOMAIN rows |-> rows[i].name],
          positions |-> [i \in DOMAIN rows |-> rows[i].offset],
          radii |-> [i \in DOMAIN rows |-> rows[i].radius],
          parent_paths |-> [i \in DOMAIN rows |-> rows[i].parent_path],
          data |-> rows]

----------------------------------------------------------------------------
(* create_contact_sensor and the creation loop of import_sensors_fn *)

create_contact_sensor(acc, parent_path, position, radius, name, rejected) ==
    [acc EXCEPT
       !.stage = IF parent_path \in rejected THEN @
                 ELSE @ \cup {parent_path \o <<SensorPrimName(name)>>},
       !.sensors = dict_set(@, name, Sensor(name, position, radius, parent_path))]

(* the loop without the is_prim_path_valid test *)
RECURSIVE create_loop_unchecked(_, _, _, _)
create_loop_unchecked(csv, i, acc, rejected) ==
    IF i > Len(csv.data) THEN acc
    ELSE LET c == create_contact_sensor(acc, csv.parent_paths[i],
                     csv.positions[i], csv.radii[i], csv.names[i], rejected)
         IN create_loop_unchecked(csv, i + 1,
                [c EXCEPT !.sensor_count = @ + 1], rejected)

RECURSIVE create_loop(_, _, _, _)
create_loop(csv, i, acc, rejected) ==
    IF i > Len(csv.data) THEN acc
    ELSE IF ~is_prim_path_valid(acc.stage, csv.parent_paths[i])
         THEN LET m == Append(acc.message,
                         Line("Could not find parent path: ", csv.parent_paths[i], 0))
              IN create_loop(csv, i + 1,
                     [acc EXCEPT !.message = m, !.shown = Append(@, m)], rejected)
         ELSE LET c == create_contact_sensor(acc, csv.parent_paths[i],
                          csv.positions[i], csv.radii[i], csv.names[i], rejected)
              IN create_loop(csv, i + 1,
                     [c EXCEPT !.sensor_count = @ + 1], rejected)

(* the frame built without a slider for the last registry value *)
update_sensor_readings_frame_short(sens) ==
    [i \in 1..(Len(sens) - 1) |-> [label |-> sens[i].name, value |-> 0]]

(* update_sensor_readings_frame: one FloatDrag per registry value, in order *)
update_sensor_readings_frame(sens) ==
    [i \in DOMAIN sens |-> [label |-> sens[i].name, value |-> 0]]

----------------------------------------------------------------------------
Init ==
    /\ parent_paths = <<>>
    /\ sliders = <<>>
    /\ activated = FALSE
    /\ sensors = <<>>
    /\ status = <<>>
    /\ stage \in {{Root} \cup UNION {Link(p) : p \in ps} : ps \in SUBSET ParentPaths}
    /\ lastUI = "none"
    /\ shown = <<>>
    /\ polled = <<>>
    /\ data = <<>>
    /\ edited = FALSE

----------------------------------------------------------------------------
(* import_sensors_fn, the handler of the 'Update' button.  Each branch     *)
(* yields the values the handler leaves in the object and on the stage.    *)

RemovingText == <<Line("Removing existing sensors...", NoPath, 0)>>

RemovedText == Append(RemovingText, Line("Sensors successfully removed", NoPath, 0))

ImportingText == Append(RemovedText, Line("Importing sensor data from", NoPath, 0))

InvalidFileLine == Line("Invalid file path or file format!", NoPath, 0)

PleaseLine ==
    Line("Please make sure the file has at least 2 sensors and is formatted correctly.",
         NoPath, 0)

CreatedLine(n) == Line("Successfully created sensors", NoPath, n)

(* texts shown up to the call of import_csv; r1 is the first remove_sensors *)
ShownBeforeParse(r1) ==
    <<RemovingText>> \o RemoveShown(r1) \o <<RemovedText, ImportingText>>

(* a failed parse that also empties the registry *)
import_failed_clearing(pp, sl, sens, dt, r1) ==
    LET message == ImportingText \o <<InvalidFileLine, PleaseLine>>
    IN [activated |-> TRUE, parent_paths |-> pp, sliders |-> sl,
        sensors |-> <<>>, data |-> dt,
        stage |-> r1.stage, status |-> message,
        shown |-> Append(ShownBeforeParse(r1), message)]

(* a failed parse that leaves the operator inactive *)
import_failed_inactive(pp, sl, sens, dt, r1) ==
    LET message == ImportingText \o <<InvalidFileLine, PleaseLine>>
    IN [activated |-> FALSE, parent_paths |-> pp, sliders |-> sl,
        sensors |-> sens, data |-> dt,
        stage |-> r1.stage, status |-> message,
        shown |-> Append(ShownBeforeParse(r1), message)]

(* a failed parse that has already dropped the tracked paths *)
import_failed_untracking(pp, sl, sens, dt, r1) ==
    LET message == ImportingText \o <<InvalidFileLine, PleaseLine>>
    IN [activated |-> TRUE, parent_paths |-> <<>>, sliders |-> sl,
        sensors |-> sens, data |-> dt,
        stage |-> r1.stage, status |-> message,
        shown |-> Append(ShownBeforeParse(r1), message)]

(* the except branch: import_csv returned None, the unpacking raised *)
import_failed(pp, sl, sens, dt, r1) ==
    LET message == ImportingText \o <<InvalidFileLine, PleaseLine>>
    IN [activated |-> TRUE, parent_paths |-> pp, sliders |-> sl,
        sensors |-> sens, data |-> dt,
        stage |-> r1.stage, status |-> message,
        shown |-> Append(ShownBeforeParse(r1), message)]

(* the try branch and the rest of the handler *)
import_succeeded(csv, r1, rejected) ==
    LET r2 == remove_sensors(r1.stage, csv.parent_paths)
        opened == Append(ImportingText, Line("File opened successfully", NoPath, 0))
        acc0 == [stage |-> r2.stage, sensors |-> <<>>, sensor_count |-> 0,
                 message |-> opened,
                 shown |-> ShownBeforeParse(r1) \o RemoveShown(r2) \o <<opened>>]
    IN LET acc == create_loop(csv, 1, acc0, rejected)
       IN LET message == Append(acc.message, CreatedLine(acc.sensor_count))
          IN [activated |-> TRUE, parent_paths |-> csv.parent_paths,
              sliders |-> update_sensor_readings_frame(acc.sensors),
              sensors |-> acc.sensors, data |-> csv.data,
              stage |-> acc.stage, status |-> message,
              shown |-> Append(acc.shown, message)]

import_sensors_fn(pp, sl, sens, dt, st, file, rejected) ==
    LET r1 == remove_sensors(st, pp)
        csv == import_csv(file)
    IN IF csv.ok THEN import_succeeded(csv, r1, rejected)
                 ELSE import_failed(pp, sl, sens, dt, r1)

Update ==
    \E file \in Files, rejected \in SUBSET RejectingPaths :
        \E res \in {import_sensors_fn(parent_paths, sliders, sensors, data,
                                      stage, file, rejected)} :
           /\ activated' = res.activated
           /\ parent_paths' = res.parent_paths
           /\ sliders' = res.sliders
           /\ sensors' = res.sensors
           /\ stage' = res.stage
           /\ status' = res.status
           /\ shown' = res.shown
           /\ data' = res.data
           /\ lastUI' = "update"
           /\ polled' = <<>>
           /\ edited' = FALSE

----------------------------------------------------------------------------
(* remove_sensors_fn, the handler of the 'Remove Sensors' button *)

AllRemovedText == <<Line("All sensors removed", NoPath, 0)>>

(* the handler without self.activated = False *)
remove_sensors_fn_active(act, st, pp) ==
    LET r == remove_sensors(st, pp)
    IN [activated |-> act, stage |-> r.stage, status |-> AllRemovedText,
        shown |-> RemoveShown(r) \o <<AllRemovedText>>]

remove_sensors_fn(act, st, pp) ==
    LET r == remove_sensors(st, pp)
    IN [activated |-> FALSE, stage |-> r.stage, status |-> AllRemovedText,
        shown |-> RemoveShown(r) \o <<AllRemovedText>>]

Remove ==
    \E res \in {remove_sensors_fn(activated, stage, parent_paths)} :
       /\ activated' = res.activated
       /\ stage' = res.stage
       /\ status' = res.status
       /\ shown' = res.shown
       /\ lastUI' = "remove"
       /\ edited' = FALSE
       /\ UNCHANGED <<parent_paths, sliders, sensors, polled, data>>

----------------------------------------------------------------------------
(* The physics-step callback and sensor_update *)

Reading == [is_valid : BOOLEAN, value : ReadingValues]

(* readings the contact-sensor interface can report: a path with no prim *)
(* behind it has no valid reading                                        *)
Interfaces(st, sens) ==
    {cs \in [{sens[i].path : i \in DOMAIN sens} -> Reading] :
        \A p \in DOMAIN cs : p \notin st => ~cs[p].is_valid}

set_value(sl, k, v) == [sl EXCEPT ![k].value = v]

Polled(path, reading) == [path |-> path, reading |-> reading]

(* the loop with the slider index counted from the other end *)
RECURSIVE update_from_reversed(_, _, _, _, _)
update_from_reversed(sl, sens, cs, k, queried) ==
    IF k > Len(sens) THEN [sliders |-> sl, queried |-> queried, raised |-> FALSE]
    ELSE LET reading == cs[sens[k].path]
             q == Append(queried, Polled(sens[k].path, reading))
         IN IF k > Len(sl)
            THEN [sliders |-> sl, queried |-> q, raised |-> TRUE]
            ELSE update_from_reversed(
                   set_value(sl, Len(sl) - k + 1,
                             IF reading.is_valid
                             THEN reading.value * meters_per_unit
                             ELSE 0),
                   sens, cs, k + 1, q)

(* the loop with an invalid reading raising instead of writing 0 *)
RECURSIVE update_from_strict(_, _, _, _, _)
update_from_strict(sl, sens, cs, k, queried) ==
    IF k > Len(sens) THEN [sliders |-> sl, queried |-> queried, raised |-> FALSE]
    ELSE LET reading == cs[sens[k].path]
             q == Append(queried, Polled(sens[k].path, reading))
         IN IF k > Len(sl) \/ ~reading.is_valid
            THEN [sliders |-> sl, queried |-> q, raised |-> TRUE]
            ELSE update_from_strict(
                   set_value(sl, k, reading.value * meters_per_unit),
                   sens, cs, k + 1, q)

(* for s in self.sensors.values(), from the k-th entry on; sliders[k] past *)
(* the end of the list raises IndexError                                   *)
RECURSIVE update_from(_, _, _, _, _)
update_from(sl, sens, cs, k, queried) ==
    IF k > Len(sens) THEN [sliders |-> sl, queried |-> queried, raised |-> FALSE]
    ELSE LET reading == cs[sens[k].path]
             q == Append(queried, Polled(sens[k].path, reading))
         IN IF k > Len(sl)
            THEN [sliders |-> sl, queried |-> q, raised |-> TRUE]
            ELSE update_from(
                   set_value(sl, k, IF reading.is_valid
                                    THEN reading.value * meters_per_unit
                                    ELSE 0),
                   sens, cs, k + 1, q)

sensor_update(sl, sens, cs) ==
    IF Len(sl) > 0 THEN update_from(sl, sens, cs, 1, <<>>)
    ELSE [sliders |-> sl, queried |-> <<>>, raised |-> FALSE]

(* the caller of sensor_update: steps reach it only while activated *)
on_physics_step(act, sl, sens, cs) ==
    IF act THEN sensor_update(sl, sens, cs)
    ELSE [sliders |-> sl, queried |-> <<>>, raised |-> FALSE]

Tick ==
    \E cs \in Interfaces(stage, sensors) :
        \E res \in {on_physics_step(activated, sliders, sensors, cs)} :
           /\ sliders' = res.sliders
           /\ polled' = IF res.queried = <<>> THEN polled ELSE res.queried
           /\ UNCHANGED <<parent_paths, activated, sensors, status, stage,
                          lastUI, shown, data, edited>>

----------------------------------------------------------------------------
(* The user editing the stage between two callbacks *)

StageAddPrim ==
    \E p \in ParentPaths :
        /\ p \notin stage
        /\ stage' = stage \cup Link(p)
        /\ edited' = TRUE
        /\ UNCHANGED <<parent_paths, sliders, activated, sensors, status,
                       lastUI, shown, polled, data>>

StageDeletePrim ==
    \E p \in ParentPaths :
        /\ p \in stage
        /\ stage' = DeletePrims(stage, p)
        /\ edited' = TRUE
        /\ UNCHANGED <<parent_paths, sliders, activated, sensors, status,
                       lastUI, shown, polled, data>>

StageAddChild ==
    \E p \in ParentPaths :
        /\ p \in stage
        /\ p \o <<OldSensor>> \notin stage
        /\ stage' = stage \cup {p \o <<OldSensor>>}
        /\ edited' = TRUE
        /\ UNCHANGED <<parent_paths, sliders, activated, sensors, status,
                       lastUI, shown, polled, data>>

Next ==
    \/ Update
    \/ Remove
    \/ Tick
    \/ StageAddPrim
    \/ StageDeletePrim
    \/ StageAddChild

Spec == Init /\ [][Next]_vars

TypeOK ==
    /\ activated \in BOOLEAN
    /\ edited \in BOOLEAN
    /\ lastUI \in {"none", "update", "remove"}
    /\ Len(parent_paths) <= MaxRows
    /\ Len(sensors) <= Cardinality(Names)

----------------------------------------------------------------------------
(* Vocabulary of the properties *)

(* rows the format description accepts: at least 2, each with 6 fields *)
(* and numeric offsets and radius                                      *)
WellFormed(rows) ==
    /\ Len(rows) >= 2
    /\ \A i \in DOMAIN rows : rows[i].ncols = 6 /\ rows[i].numeric

DistinctNames(rows) ==
    \A i, j \in DOMAIN rows : i # j => rows[i].name # rows[j].name

ScenePath(row) == row.parent_path \o << <<"tact_sensor", row.name>> >>

EntriesNamed(reg, name) == {k \in DOMAIN reg : reg[k].name = name}

(* the prims below path p whose own name carries the marker *)
MarkedUnder(st, p) ==
    {q \in st : /\ Len(q) > Len(p)
                /\ SubSeq(q, 1, Len(p)) = p
                /\ \E i \in DOMAIN q[Len(q)] : q[Len(q)][i] = "tact_sensor"}

Tracked == {parent_paths[i] : i \in DOMAIN parent_paths}

LastLine(text) == text[Len(text)]

ImportSucceeded ==
    lastUI = "update" /\ LastLine(status).msg = "Successfully created sensors"

ImportFailed ==
    lastUI = "update" /\ LastLine(status) = PleaseLine

(* the step just taken is a run of the 'Update' handler *)
UpdateStep == lastUI' = "update" /\ ~edited' /\ polled' = <<>>

(* what a slider shows for a reading *)
Shown(reading) == IF reading.is_valid THEN reading.value * 1 ELSE 0

----------------------------------------------------------------------------
(* C1: after import_and_apply of a well-formed file with at least 2 rows   *)
(* and pairwise distinct names, the registry has exactly one entry per row *)
(* whose attachment path resolves, keyed by the row's name and with scene  *)
(* path attachment_path + "/tact_sensor_" + name, and no entry for a row   *)
(* whose path does not resolve, whatever the registry held before.         *)
C1_RegistryMatchesRows ==
    (ImportSucceeded /\ ~edited /\ WellFormed(data) /\ DistinctNames(data))
    => /\ \A i \in DOMAIN data :
            IF data[i].parent_path \in stage
            THEN /\ Cardinality(EntriesNamed(sensors, data[i].name)) = 1
                 /\ \A k \in EntriesNamed(sensors, data[i].name) :
                       /\ sensors[k].path = ScenePath(data[i])
                       /\ sensors[k].parent_path = data[i].parent_path
            ELSE EntriesNamed(sensors, data[i].name) = {}
       /\ Len(sensors) =
            Cardinality({i \in DOMAIN data : data[i].parent_path \in stage})

(* an import of distinct names that skipped one row and registered another *)
C1_Witness ==
    /\ ImportSucceeded /\ ~edited /\ WellFormed(data) /\ DistinctNames(data)
    /\ \E i \in DOMAIN data : data[i].parent_path \notin stage
    /\ \E i \in DOMAIN data : data[i].parent_path \in stage
    /\ Len(sensors) = 1

(* C2: after a successful import followed by the user-facing remove_all,   *)
(* no prim whose name contains "tact_sensor" is left under any tracked     *)
(* attachment path.                                                        *)
C2_RoundTrip ==
    (lastUI = "remove" /\ ~edited /\ data # <<>>)
    => \A p \in Tracked : MarkedUnder(stage, p) = {}

(* C3: remove_all twice in succession with no scene change in between: the *)
(* registry is empty after the first call and after the second, and the    *)
(* second call deletes no prim.                                            *)
C3_RemoveIdempotent ==
    (lastUI = "remove" /\ ~edited)
    => /\ sensors = <<>>
       /\ remove_sensors_fn(activated, stage, parent_paths).stage = stage

(* C4: a completed import_and_apply or remove_all never leaves in the      *)
(* registry an entry for a sensor prim that the operation deleted.         *)
C4_RegistryTracksScene ==
    [][(lastUI' \in {"update", "remove"} /\ ~edited')
         => \A i \in DOMAIN sensors' :
               sensors'[i].path \in stage => sensors'[i].path \in stage']_vars

(* C5: when one tracked attachment path cannot be resolved, remove_all     *)
(* still deletes the marker-named children under every other tracked path, *)
(* also those later in the list.                                           *)
C5_RemoveFailsSoft ==
    (lastUI = "remove" /\ ~edited /\ \E p \in Tracked : p \notin stage)
    => \A p \in Tracked : p \in stage => MarkedUnder(stage, p) = {}

(* C6: an import_and_apply whose parse fails leaves the registry, the      *)
(* tracked attachment paths and the display elements as they were, creates *)
(* no sensor, and changes the scene only by deleting marker-named prims    *)
(* under the previously tracked paths.                                     *)
C6_FailedParseKeepsState ==
    [][(UpdateStep /\ LastLine(status') = PleaseLine)
         => /\ sensors' = sensors
            /\ parent_paths' = parent_paths
            /\ sliders' = sliders
            /\ stage' \subseteq stage
            /\ \A q \in stage \ stage' :
                  \E p \in Tracked : q \in MarkedUnder(stage, p)]_vars

(* a failed import that found a registry and tracked paths and whose *)
(* cleanup deleted a registered sensor                               *)
C6_Witness ==
    /\ ImportFailed /\ ~edited
    /\ sensors # <<>> /\ parent_paths # <<>> /\ sliders # <<>>
    /\ \E i \in DOMAIN sensors :
          sensors[i].parent_path \in stage /\ sensors[i].path \notin stage

(* C7: the display elements are the sensor names in registry order, and a  *)
(* tick writes to element i the reading fetched for the i-th registry      *)
(* entry.                                                                  *)
C7_OrderInvariant ==
    /\ Len(sliders) = Len(sensors)
    /\ \A i \in DOMAIN sliders : sliders[i].label = sensors[i].name
    /\ polled # <<>> =>
          \A i \in DOMAIN polled :
             /\ i \in DOMAIN sliders
             /\ polled[i].path = sensors[i].path
             /\ sliders[i].value = Shown(polled[i].reading)

(* a tick over two sensors whose readings differ *)
C7_Witness ==
    /\ Len(polled) = 2 /\ Len(sliders) = 2
    /\ sliders[1].label # sliders[2].label
    /\ Shown(polled[1].reading) # Shown(polled[2].reading)
    /\ sliders[1].value # sliders[2].value

C9_ActiveFlag == activated <=> (lastUI = "update")

(* a failed import whose internal removal met an unresolvable path *)
C9_Witness ==
    /\ ImportFailed /\ activated
    /\ \E k \in DOMAIN shown : shown[k] = UnexpectedText

(* C10: on a tick with display elements every element receives its         *)
(* sensor's value times the unit factor when the reading is valid and 0    *)
(* when it is not; an invalid or missing reading raises nothing and does   *)
(* not stop the rest of the tick.                                          *)
C10_TickValues ==
    /\ polled # <<>> =>
          /\ Len(polled) = Len(sensors)
          /\ \A i \in DOMAIN sliders :
                /\ i \in DOMAIN polled
                /\ polled[i].reading.is_valid
                      => sliders[i].value = polled[i].reading.value * meters_per_unit
                /\ ~polled[i].reading.is_valid => sliders[i].value = 0
    /\ \A cs \in Interfaces(stage, sensors) :
          ~sensor_update(sliders, sensors, cs).raised

(* a tick whose first reading is missing (no prim) and whose second is *)
(* valid                                                               *)
C10_Witness ==
    /\ Len(polled) = 2 /\ Len(sliders) = 2
    /\ polled[1].path \notin stage
    /\ ~polled[1].reading.is_valid /\ sliders[1].value = 0
    /\ polled[2].reading.is_valid /\ sliders[2].value = 3

(* C11: a file with fewer than 2 data rows (in particular exactly 1) is    *)
(* rejected as a parse failure and creates no sensor; a file with 2 or     *)
(* more valid 6-field rows is accepted and goes on to sensor creation.     *)
C11_MinimumCount ==
    /\ \A file \in Files :
          /\ Len(file.rows) < 2 => ~import_csv(file).ok
          /\ (file.readable /\ WellFormed(file.rows))
                => (import_csv(file).ok /\ import_csv(file).data = file.rows)
    /\ \A file \in {f \in Files : f.readable /\ Len(f.rows) <= 2} :
          \E res \in {import_sensors_fn(parent_paths, sliders, sensors, data,
                                        stage, file, {})} :
             /\ Len(file.rows) < 2 =>
                   /\ LastLine(res.status) = PleaseLine
                   /\ res.sensors = sensors
                   /\ res.stage \subseteq stage
             /\ (Len(file.rows) = 2 /\ WellFormed(file.rows)) =>
                   /\ LastLine(res.status).msg = "Successfully created sensors"
                   /\ res.data = file.rows
                   /\ \A i \in DOMAIN file.rows :
                         file.rows[i].parent_path \in stage
                            => ScenePath(file.rows[i]) \in res.stage
    /\ ImportSucceeded => Len(data) >= 2

(* an accepted file of exactly 2 rows whose sensors were created, in a   *)
(* state where a file of exactly 1 row is turned down                    *)
C11_Witness ==
    /\ ImportSucceeded /\ ~edited
    /\ Len(data) = 2 /\ WellFormed(data)
    /\ \A i \in DOMAIN data : ScenePath(data[i]) \in stage
    /\ \E file \in Files :
          /\ file.readable /\ Len(file.rows) = 1
          /\ LastLine(import_sensors_fn(parent_paths, sliders, sensors, data,
                                        stage, file, {}).status) = PleaseLine

(* C12: a registry entry is added, and counted in "Successfully created N  *)
(* sensors", only for a sensor whose creation command succeeded: after an  *)
(* import N is the number of sensors the import created in the scene and   *)
(* the number of registry entries.                                         *)
C12_CountMatchesCreated ==
    (ImportSucceeded /\ ~edited)
    => /\ LastLine(status).n = Len(sensors)
       /\ LastLine(status).n =
             Cardinality({ScenePath(data[i]) : i \in DOMAIN data} \cap stage)
       /\ \A i \in DOMAIN sensors : sensors[i].path \in stage

(* C13: within one import_and_apply every status text shown extends the    *)
(* text shown just before it, so no reported line is dropped or            *)
(* overwritten.                                                            *)
C13_StatusAppendOnly ==
    lastUI = "update"
    => \A k \in 1..(Len(shown) - 1) :
          /\ Len(shown[k]) <= Len(shown[k + 1])
          /\ SubSeq(shown[k + 1], 1, Len(shown[k])) = shown[k]

(* C14: no tick sees a half-rebuilt registry: in every state a tick can    *)
(* run in, after any sequence of Update, Remove and ticks, the display     *)
(* list and the registry have the same length and the sync loop never      *)
(* indexes past the end of the display list.                               *)
C14_NoMidRebuild ==
    /\ Len(sensors) = Len(sliders)
    /\ \A cs \in Interfaces(stage, sensors) :
          \E res \in {on_physics_step(activated, sliders, sensors, cs)} :
             /\ ~res.raised
             /\ Len(res.queried) <= Len(sliders)

(* a tick that ran after a failed import over the registry and sliders of *)
(* the import before it                                                   *)
C14_Witness ==
    /\ ImportFailed /\ activated
    /\ Len(sensors) = 2 /\ Len(sliders) = 2
    /\ Len(polled) = 2

TrackedIn(pp) == {pp[i] : i \in DOMAIN pp}

(* the scene paths the rows name under attachment paths that resolve *)
MadeBy(rows, st) ==
    {ScenePath(rows[i]) : i \in {k \in DOMAIN rows : rows[k].parent_path \in st}}

(* C15: after a successful import the marker-named prims under every       *)
(* resolving attachment path of the new file are the ones this import      *)
(* created, and none is left over under a path tracked before the call.    *)
C15_DoubleRemoval ==
    [][(UpdateStep /\ LastLine(status').msg = "Successfully created sensors")
         => /\ \A p \in TrackedIn(parent_paths') :
                  p \in stage' => MarkedUnder(stage', p) \subseteq MadeBy(data', stage')
            /\ \A p \in TrackedIn(parent_paths) :
                  MarkedUnder(stage', p) \subseteq MadeBy(data', stage')]_vars

(* C16: when two rows with resolving attachment paths carry the same name, *)
(* the registry holds one entry for the name, with the definition of the   *)
(* later row, and no error is reported for the duplicate.                  *)
C16_LastWriteWins ==
    (ImportSucceeded /\ ~edited)
    => /\ \A i \in DOMAIN data :
            (/\ data[i].parent_path \in stage
             /\ ~\E j \in DOMAIN data :
                    /\ j > i
                    /\ data[j].name = data[i].name
                    /\ data[j].parent_path \in stage)
            => /\ Cardinality(EntriesNamed(sensors, data[i].name)) = 1
               /\ \A k \in EntriesNamed(sensors, data[i].name) :
                     /\ sensors[k].parent_path = data[i].parent_path
                     /\ sensors[k].path = ScenePath(data[i])
                     /\ sensors[k].radius = data[i].radius
                     /\ sensors[k].position = data[i].offset
       /\ \A k \in DOMAIN status :
             status[k].msg \in {"Removing existing sensors...",
                                "Sensors successfully removed",
                                "Importing sensor data from",
                                "File opened successfully",
                                "Successfully created sensors"}
             \/ (status[k].msg = "Could not find parent path: "
                    /\ status[k].arg \notin stage)

(* one name on two links that both resolve: the entry is the later row's *)
C16_Witness ==
    /\ ImportSucceeded /\ ~edited
    /\ Len(sensors) = 1
    /\ \E i, j \in DOMAIN data :
          /\ i < j
          /\ data[i].name = data[j].name
          /\ data[i].parent_path # data[j].parent_path
          /\ data[i].parent_path \in stage /\ data[j].parent_path \in stage
          /\ sensors[1].parent_path = data[j].parent_path

(* C17: a sync tick changes only display-element values: the registry, the *)
(* tracked paths, the active flag, the status text and the scene stay as   *)
(* they are; the registry and the tracked paths change only in Update, the *)
(* tracked paths only when the parse succeeds.                             *)
C17_TickReadOnly ==
    [][/\ (polled' # polled /\ polled' # <<>>)
            => /\ sensors' = sensors
               /\ parent_paths' = parent_paths
               /\ activated' = activated
               /\ status' = status
               /\ stage' = stage
       /\ (sliders' # sliders /\ ~UpdateStep)
            => (polled' # polled /\ polled' # <<>>)
       /\ (sensors' # sensors \/ parent_paths' # parent_paths) => UpdateStep
       /\ parent_paths' # parent_paths
            => LastLine(status').msg = "Successfully created sensors"]_vars

(* a tick has written a reading while registry, paths and status stand *)
C17_Witness ==
    /\ polled # <<>>
    /\ \E i \in DOMAIN sliders : sliders[i].value # 0
    /\ sensors # <<>> /\ parent_paths # <<>> /\ ImportSucceeded

====
